---- MODULE Spec2Model ----
(***************************************************************************)
(* Smart Waste Mataram: the telemetry generator and the intelligence       *)
(* pipeline (snapshot, threshold colours, clustering labels, pickup route, *)
(* trend forecast) of BigData/app.py and BigData/app2.py.                  *)
(*                                                                         *)
(* Units.  Reals of the source are kept as scaled integers:                *)
(*   multiplier, weekend_factor, app2's time_factor : tenths               *)
(*   berat_kg                                       : hundredths of a kg   *)
(*   the jitter of np.random.uniform(0.9, 1.2)      : thousandths          *)
(* A timestamp is a whole number of hours; its hour of day is t % 24 and   *)
(* its weekday is (t \div 24) % 7 with 0 = Monday.                         *)
(***************************************************************************)
EXTENDS Integers, Sequences, FiniteSets, TLC

VARIABLES
    app,            \* which program runs: "app" (app.py) or "app2" (app2.py)
    rng,            \* the values the random source can yield: "full", "ends"
                    \* or "low"
    now,            \* the wall clock, in hours
    window,         \* timedelta(days=...) of generate_data, in hours
    end_date,       \* datetime.now() taken by generate_data
    current_time,   \* generate_data: loop variable of the while loop
    loc_i,          \* generate_data: position of the for loop over the stations
    data,           \* generate_data: the rows appended so far
    pc,             \* position of the script
    cache,          \* st.cache_data: <<>> or <<the DataFrame returned>>
    df_raw,         \* the History the script works on
    gens,           \* every DataFrame generate_data has returned, in order
    df_latest,      \* the Snapshot, with the columns the script attaches
    pickup_list,    \* the urgent rows of the snapshot, in pickup order
    route,          \* the stops of the planned route
    forecast,       \* the daily totals and the fitted trend: <<>> or <<record>>
    err,            \* the exception that ended the script, "" if none
    rd              \* single-row harness: <<>> or <<one generated row>>

vars == <<app, rng, now, window, end_date, current_time, loc_i, data, pc,
          cache, df_raw, gens, df_latest, pickup_list, route, forecast, err, rd>>

(***************************************************************************)
(* Bounds of the model.                                                    *)
(***************************************************************************)
\* stations of the registry the windowed generator runs over
NumStations == 2
\* length of the trailing window in hours (the source uses 7 * 24)
WindowHours == 1
\* rows of the largest snapshot handed to the route planner
RouteRows == 3
\* rows of the largest snapshot handed to the clustering
ClusterRows == 4

\* the calendar days of the histories the forecaster is run on
ForecastDays == 3
\* the longest trailing window in whole days (the source uses 7)
WindowDays == 1
\* the hours that pass between the first generation and the last rerun
MaxElapsed == 3
\* hours before now in the window of the runs that go on to the route
LatestWindow == 0

(***************************************************************************)
(* Arithmetic helpers.                                                     *)
(***************************************************************************)
Max(a, b) == IF a >= b THEN a ELSE b
Min(a, b) == IF a <= b THEN a ELSE b

\* Python int(x) on the rational n / d, d > 0: truncation toward zero
TruncDiv(n, d) == IF n >= 0 THEN n \div d ELSE -((-n) \div d)

\* Python round(x) on the rational n / d, n >= 0, d > 0: half to even
RoundHalfEven(n, d) ==
    LET q == n \div d
        r == n % d
    IN  IF 2 * r < d THEN q
        ELSE IF 2 * r > d THEN q + 1
        ELSE IF q % 2 = 0 THEN q ELSE q + 1

\* the values one whole-number draw from lo..hi can take under the current
\* random source: all of them, the two ends of the range, or the low end
RandInt(lo, hi) ==
    IF rng = "full" THEN lo .. hi ELSE IF rng = "ends" THEN {lo, hi} ELSE {lo}

\* the values one real-valued draw from [lo, hi] is sampled at
Uniform(lo, hi) == IF rng = "full" THEN {lo, hi} ELSE {lo}

\* the values one draw of the lid state can take
Choice == IF rng = "low" THEN {"Tutup"} ELSE {"Tutup", "Buka"}

(***************************************************************************)
(* Station registries.                                                     *)
(***************************************************************************)
LOCATIONS == <<
    [id |-> "TPS-01", multiplier |-> 8],
    [id |-> "TPS-02", multiplier |-> 9],
    [id |-> "TPS-03", multiplier |-> 10],
    [id |-> "TPS-04", multiplier |-> 12],
    [id |-> "TPS-05", multiplier |-> 11],
    [id |-> "TPS-06", multiplier |-> 13],
    [id |-> "TPS-07", multiplier |-> 10],
    [id |-> "TPS-08", multiplier |-> 9],
    [id |-> "TPS-09", multiplier |-> 18],
    [id |-> "TPS-10", multiplier |-> 19],
    [id |-> "TPS-11", multiplier |-> 8],
    [id |-> "TPS-12", multiplier |-> 9],
    [id |-> "TPS-13", multiplier |-> 14],
    [id |-> "TPS-14", multiplier |-> 12],
    [id |-> "TPS-15", multiplier |-> 13] >>

tps_locations == <<
    [id |-> "TPS-01", base_load |-> 80],
    [id |-> "TPS-02", base_load |-> 40],
    [id |-> "TPS-03", base_load |-> 50],
    [id |-> "TPS-04", base_load |-> 60],
    [id |-> "TPS-05", base_load |-> 45],
    [id |-> "TPS-06", base_load |-> 55],
    [id |-> "TPS-07", base_load |-> 70],
    [id |-> "TPS-08", base_load |-> 50],
    [id |-> "TPS-09", base_load |-> 30],
    [id |-> "TPS-10", base_load |-> 85],
    [id |-> "TPS-11", base_load |-> 90],
    [id |-> "TPS-12", base_load |-> 95],
    [id |-> "TPS-13", base_load |-> 65],
    [id |-> "TPS-14", base_load |-> 75],
    [id |-> "TPS-15", base_load |-> 80],
    [id |-> "TPS-16", base_load |-> 55],
    [id |-> "TPS-17", base_load |-> 70],
    [id |-> "TPS-18", base_load |-> 85],
    [id |-> "TPS-19", base_load |-> 60],
    [id |-> "TPS-20", base_load |-> 75] >>

\* the disposal site, the last stop of every non-empty route
TPA_LOCATION == "TPA Kebon Kongok"

\* The windowed generator runs over the first NumStations stations of the
\* registry taken in this order, so that a short registry still holds a
\* station of each multiplier band (app.py) and a light and a heavy
\* base load (app2.py).
PickOrder == <<10, 4, 1, 9, 13, 3, 2, 5, 6, 7, 8, 11, 12, 14, 15>>

Registry(a) ==
    [i \in 1 .. NumStations |->
        IF a = "app" THEN LOCATIONS[PickOrder[i]]
                     ELSE tps_locations[PickOrder[i]]]

(***************************************************************************)
(* One reading of app.py's generate_data.                                  *)
(***************************************************************************)
\* app.py 80-84
time_factor(hour) ==
    IF 6 <= hour /\ hour < 12 THEN 5
    ELSE IF 12 <= hour /\ hour < 17 THEN 10
    ELSE IF 17 <= hour /\ hour <= 21 THEN 25
    ELSE 0

\* app.py 77, 87: in tenths
weekend_factor(t) == IF (t \div 24) % 7 >= 5 THEN 12 ELSE 10

\* app.py 98: the term the multiplier scales
hour_progress(hour) == hour * 2

LatestBandFrom70(loc) ==
    IF loc.multiplier > 15 THEN [lo |-> 70, hi |-> 99]
    ELSE IF loc.multiplier > 11 THEN [lo |-> 50, hi |-> 78]
    ELSE [lo |-> 10, hi |-> 48]

\* app.py 103-105: the range the forced fill of the last timestamp is drawn from
LatestBand(loc) ==
    IF loc.multiplier > 15 THEN [lo |-> 80, hi |-> 99]
    ELSE IF loc.multiplier > 11 THEN [lo |-> 50, hi |-> 78]
    ELSE [lo |-> 10, hi |-> 48]

BaseFillWithoutReset(loc, t, is_last, noise, reset, latest) ==
    IF is_last THEN latest
    ELSE TruncDiv(hour_progress(t % 24) * loc.multiplier * weekend_factor(t)
                  + 100 * (time_factor(t % 24) + noise), 100)

\* app.py 94-105: noise, reset and latest are the values of the three draws
base_fill(loc, t, is_last, noise, reset, latest) ==
    LET hour == t % 24
        accumulated ==
            IF hour = 5 THEN reset
            ELSE TruncDiv(hour_progress(hour) * loc.multiplier * weekend_factor(t)
                          + 100 * (time_factor(hour) + noise), 100)
    IN  IF is_last THEN latest ELSE accumulated

ClampNoFloor(x) == Min(x, 100)

\* app.py 107, app2.py 213
Clamp(x) == Max(0, Min(x, 100))

\* app.py 111, 125: jitter in thousandths, result in hundredths of a kg
berat_kg(level, jitter) == RoundHalfEven(level * jitter, 4)

StatusTutupAbove90(level, choice) == IF level > 90 THEN "Buka" ELSE choice

\* app.py 114, app2.py 222: choice is the value np.random.choice would give
status_tutup(level, choice) == IF level > 85 THEN "Buka" ELSE choice

StatusBauFrom70(level, tutup) ==
    IF tutup = "Buka" /\ level >= 70 THEN "Menyengat" ELSE "Normal"

\* app.py 115, app2.py 226-229
status_bau(level, tutup) ==
    IF tutup = "Buka" /\ level > 70 THEN "Menyengat" ELSE "Normal"

\* app.py 107
level_kepenuhan(loc, t, is_last, noise, reset, latest) ==
    Clamp(base_fill(loc, t, is_last, noise, reset, latest))

\* app.py 109-128: the row appended for station loc at time t, given its level
Row(loc, t, level, jitter, choice) ==
    LET tutup == status_tutup(level, choice)
    IN  [timestamp       |-> t,
         id_tps          |-> loc.id,
         level_kepenuhan |-> level,
         berat_kg        |-> berat_kg(level, jitter),
         status_tutup    |-> tutup,
         status_bau      |-> status_bau(level, tutup)]

(***************************************************************************)
(* One reading of app2.py's WasteDataGenerator.generate_data.              *)
(***************************************************************************)
\* app2.py 194-200: in tenths
time_factor_app2(hour) ==
    IF 0 <= hour /\ hour < 6 THEN 3
    ELSE IF 17 <= hour /\ hour <= 20 THEN 15
    ELSE 8

\* app2.py 205-213.  random.uniform(-10, 20) is drawn as a whole number:
\* int() of base_load * time_factor + noise takes the same values for the
\* whole numbers of [-10, 20] as for the reals of that interval.
level_app2(tps, t, noise, reset) ==
    LET hour == t % 24
        level == TruncDiv(tps.base_load * time_factor_app2(hour) + 10 * noise, 10)
    IN  Clamp(IF hour = 5 THEN reset ELSE level)

\* app2.py 217-218: jitter in hundredths of a kg
berat_kg_app2(level, jitter) == Max(0, level * 500 + jitter)

\* app2.py 215-242: the row appended for station tps at time t, given its level
Row_app2(tps, t, level, jitter, choice) ==
    LET tutup == status_tutup(level, choice)
    IN  [timestamp       |-> t,
         id_tps          |-> tps.id,
         level_kepenuhan |-> level,
         berat_kg        |-> berat_kg_app2(level, jitter),
         status_tutup    |-> tutup,
         status_bau      |-> status_bau(level, tutup)]

\* every level the draws of one pass of the loop body can give
Levels(a, s, t, is_last) ==
    IF a = "app"
    THEN { level_kepenuhan(s, t, is_last, noise, reset, latest) :
             noise \in RandInt(-5, 9), reset \in RandInt(0, 9),
             latest \in RandInt(LatestBand(s).lo, LatestBand(s).hi) }
    ELSE { level_app2(s, t, noise, reset) :
             noise \in RandInt(-10, 20), reset \in RandInt(0, 10) }

\* every row one pass of the loop body can append for station s at time t
Rows(a, s, t, is_last) ==
    IF a = "app"
    THEN { Row(s, t, level, jitter, choice) :
             level \in Levels(a, s, t, is_last),
             jitter \in Uniform(900, 1199), choice \in Choice }
    ELSE { Row_app2(s, t, level, jitter, choice) :
             level \in Levels(a, s, t, is_last),
             jitter \in Uniform(-500, 500), choice \in Choice }

(***************************************************************************)
(* generate_data behind st.cache_data, and the snapshot.                   *)
(***************************************************************************)
\* the values of datetime.now() the runs start from: Wednesday 05:00 (the
\* collection hour is the last slot), Wednesday 06:00 (the collection hour is
\* inside the window), Saturday 18:00 (weekend, peak hour) and Monday 00:00
\* (the window reaches back into Sunday)
Nows == {168 + 2 * 24 + 5, 168 + 2 * 24 + 6, 168 + 5 * 24 + 18, 168}

\* app.py 62, app2.py 250: st.cache_data holds a value for the call; the
\* cached functions take no argument, so the key of the entry is the function
CacheHit(c) == c # <<>>

\* app.py 62-74, app2.py 250-253, 179-183: the cached call of generate_data
Call ==
    /\ pc = "start"
    /\ IF CacheHit(cache)
       THEN /\ df_raw' = cache[1]
            /\ pc' = "loaded"
            /\ UNCHANGED <<end_date, current_time, loc_i, data>>
       ELSE /\ end_date' = now
            /\ current_time' = now - window
            /\ loc_i' = 1
            /\ data' = <<>>
            /\ pc' = "loop"
            /\ UNCHANGED df_raw
    /\ UNCHANGED <<now, window, forecast, err, app, rng, cache, gens,
                   df_latest, pickup_list, route, rd>>

InWindowExclusive(t, last) == t < last

\* app.py 75, app2.py 184: the condition of the while loop
InWindow(t, last) == t <= last

\* app.py 75-130, app2.py 184-244: one pass of the body of the station loop
GenRow ==
    /\ pc = "loop"
    /\ InWindow(current_time, end_date)
    /\ \E r \in Rows(app, Registry(app)[loc_i], current_time,
                      current_time = end_date) :
           data' = Append(data, r)
    /\ IF loc_i = NumStations
       THEN loc_i' = 1 /\ current_time' = current_time + 1
       ELSE loc_i' = loc_i + 1 /\ UNCHANGED current_time
    /\ UNCHANGED <<now, window, forecast, err, app, rng, end_date, pc, cache, df_raw, gens, df_latest,
                   pickup_list, route, rd>>

\* app.py 132-136, app2.py 246-247, 670: the loop ends, the frame is returned
\* and stored by st.cache_data
Return ==
    /\ pc = "loop"
    /\ ~InWindow(current_time, end_date)
    /\ df_raw' = data
    /\ cache' = <<data>>
    /\ gens' = Append(gens, data)
    /\ pc' = "loaded"
    /\ UNCHANGED <<now, window, forecast, err, app, rng, end_date, current_time, loc_i, data, df_latest,
                   pickup_list, route, rd>>

\* max of a non-empty set of whole numbers
SetMax(S) == CHOOSE m \in S : \A x \in S : x <= m

\* app.py 143, app2.py 469
latest_timestamp(df) == SetMax({df[i].timestamp : i \in 1 .. Len(df)})

\* a snapshot row: the reading plus the columns the script attaches later
\* ("none", -1 = the column is absent)
SnapRow(r) ==
    [timestamp       |-> r.timestamp,
     id_tps          |-> r.id_tps,
     level_kepenuhan |-> r.level_kepenuhan,
     berat_kg        |-> r.berat_kg,
     status_tutup    |-> r.status_tutup,
     status_bau      |-> r.status_bau,
     color           |-> "none",
     cluster         |-> -1,
     label           |-> "none"]

LatestRowsUpTo(df, ts) ==
    LET sel == SelectSeq(df, LAMBDA r : r.timestamp <= ts)
    IN  [i \in 1 .. Len(sel) |-> SnapRow(sel[i])]

\* app.py 144, app2.py 470: the rows at timestamp ts
LatestRows(df, ts) ==
    LET sel == SelectSeq(df, LAMBDA r : r.timestamp = ts)
    IN  [i \in 1 .. Len(sel) |-> SnapRow(sel[i])]

\* app.py 143-144, app2.py 384-385, 469-470, 545-546.  pd.DataFrame([]) has
\* no columns, so df['timestamp'] on an empty History raises KeyError.
ExtractLatest ==
    /\ pc = "loaded"
    /\ IF df_raw = <<>>
       THEN /\ pc' = "error"
            /\ err' = "KeyError"
            /\ UNCHANGED df_latest
       ELSE /\ df_latest' = LatestRows(df_raw, latest_timestamp(df_raw))
            /\ pc' = "snapshot"
            /\ UNCHANGED err
    /\ UNCHANGED <<now, window, forecast, app, rng, end_date, current_time,
                   loc_i, data, cache, df_raw, gens, pickup_list, route, rd>>

(***************************************************************************)
(* Threshold colours.                                                      *)
(***************************************************************************)
StatusColorInclusive(level) ==
    IF level > 75 THEN "Merah"
    ELSE IF level >= 50 THEN "Kuning"
    ELSE "Hijau"

\* app.py 147-153: Merah = high, Kuning = medium, Hijau = low urgency
get_status_color(level) ==
    IF level > 75 THEN "Merah"
    ELSE IF level > 50 THEN "Kuning"
    ELSE "Hijau"

\* app2.py 340-347
get_color_by_level(level) ==
    IF level < 50 THEN "Hijau"
    ELSE IF level < 80 THEN "Kuning"
    ELSE "Merah"

\* app.py 155, app2.py 409: the colour column is attached to the snapshot
Colorize ==
    /\ pc = "snapshot"
    /\ df_latest' =
         [i \in 1 .. Len(df_latest) |->
            [df_latest[i] EXCEPT !.color =
                IF app = "app" THEN get_status_color(df_latest[i].level_kepenuhan)
                ELSE get_color_by_level(df_latest[i].level_kepenuhan)]]
    /\ pc' = "colored"
    /\ UNCHANGED <<now, window, forecast, err, app, rng, end_date, current_time, loc_i, data, cache,
                   df_raw, gens, pickup_list, route, rd>>

(***************************************************************************)
(* Clustering labels.                                                      *)
(***************************************************************************)
\* the ids KMeans(n_clusters=3) hands out
ClusterIds == 0 .. 2

\* every sequence that lists each element of the finite set S once
Perms(S) ==
    { q \in [1 .. Cardinality(S) -> S] :
        \A i, j \in 1 .. Cardinality(S) : i # j => q[i] # q[j] }

RECURSIVE SumLevel(_, _)
\* sum of level_kepenuhan over the rows of df whose index is in I
SumLevel(df, I) ==
    IF I = {} THEN 0
    ELSE LET i == CHOOSE x \in I : TRUE
         IN  df[i].level_kepenuhan + SumLevel(df, I \ {i})

\* the rows fit_predict put into cluster c
Members(cluster, c) == { i \in DOMAIN cluster : cluster[i] = c }

\* mean level of cluster a <= mean level of cluster b (groupby(...).mean())
MeanLeq(df, cluster, a, b) ==
    SumLevel(df, Members(cluster, a)) * Cardinality(Members(cluster, b))
        <= SumLevel(df, Members(cluster, b)) * Cardinality(Members(cluster, a))

\* app.py 165: the cluster ids in use, by mean level descending; clusters of
\* equal mean come in either order
RankDescending(df, cluster) ==
    { q \in Perms({cluster[i] : i \in DOMAIN cluster}) :
        \A i \in 1 .. Len(q) - 1 : MeanLeq(df, cluster, q[i + 1], q[i]) }

\* app2.py 303: the cluster ids in use, by mean level ascending
RankAscending(df, cluster) ==
    { q \in Perms({cluster[i] : i \in DOMAIN cluster}) :
        \A i \in 1 .. Len(q) - 1 : MeanLeq(df, cluster, q[i], q[i + 1]) }

\* position of cluster id c in the ranking q
RankOf(q, c) == CHOOSE i \in 1 .. Len(q) : q[i] = c

\* the number of distinct (level_kepenuhan, berat_kg) points of the snapshot
DistinctPoints(df) ==
    Cardinality({ <<df[i].level_kepenuhan, df[i].berat_kg>> :
                    i \in 1 .. Len(df) })

\* app.py 161-162, app2.py 297-298: what KMeans(n_clusters=3).fit_predict can
\* return.  Equal points get the same id, and as many ids are in use as there
\* are distinct points, up to 3; which id a group gets is up to the library.
fit_predict(df) ==
    { cluster \in [1 .. Len(df) -> ClusterIds] :
        /\ \A i, j \in 1 .. Len(df) :
              (/\ df[i].level_kepenuhan = df[j].level_kepenuhan
               /\ df[i].berat_kg = df[j].berat_kg) => cluster[i] = cluster[j]
        /\ Cardinality({ cluster[i] : i \in 1 .. Len(df) })
              = Min(3, DistinctPoints(df)) }

\* app.py 162, 173; app2.py 298, 311: the cluster and label columns are set
\* on the snapshot frame
WithLabels(df, cluster, lab) ==
    [i \in 1 .. Len(df) |->
        [df[i] EXCEPT !.cluster = cluster[i], !.label = lab[i]]]

\* app.py 159
NeedsClustering(df) == Len(df) > 3

\* app2.py 288
TooFewForClustering(df) == Len(df) < 3

\* app.py 166-171
priority_map == <<"High", "Medium", "Low">>

\* app2.py 307
labels == <<"Low", "Medium", "High">>

\* app.py 165-173, app2.py 303-311: the label columns the mapping can give
\* for the cluster ids in cluster; one per order of the sorted means
cluster_label(a, df, cluster) ==
    IF a = "app"
    THEN { [i \in 1 .. Len(df) |-> priority_map[RankOf(q, cluster[i])]] :
             q \in RankDescending(df, cluster) }
    ELSE { [i \in 1 .. Len(df) |-> labels[RankOf(q, cluster[i])]] :
             q \in RankAscending(df, cluster) }

\* app.py 159-173; app2.py 554, 282-312, 558-579 (the clustering tab)
Cluster ==
    /\ IF app = "app" THEN pc = "colored" ELSE pc = "snapshot"
    /\ IF app = "app"
       THEN IF NeedsClustering(df_latest)
            THEN \E cluster \in fit_predict(df_latest) :
                    IF Cardinality({cluster[i] : i \in DOMAIN cluster}) < 3
                    THEN \* cluster_avg.index[2] raises IndexError
                         /\ pc' = "error"
                         /\ err' = "IndexError"
                         /\ UNCHANGED df_latest
                    ELSE \E lab \in cluster_label(app, df_latest, cluster) :
                         /\ df_latest' = WithLabels(df_latest, cluster, lab)
                         /\ pc' = "classified"
                         /\ UNCHANGED err
            ELSE /\ df_latest' =
                      [i \in 1 .. Len(df_latest) |->
                          [df_latest[i] EXCEPT !.label = "Unknown"]]
                 /\ pc' = "classified"
                 /\ UNCHANGED err
       ELSE IF TooFewForClustering(df_latest)
            THEN \* the frame comes back without cluster_label and the
                 \* scatter plot coloured by that column raises
                 /\ pc' = "error"
                 /\ err' = "ValueError"
                 /\ UNCHANGED df_latest
            ELSE \E cluster \in fit_predict(df_latest) :
                 \E lab \in cluster_label(app, df_latest, cluster) :
                    /\ df_latest' = WithLabels(df_latest, cluster, lab)
                    /\ pc' = "classified"
                    /\ UNCHANGED err
    /\ UNCHANGED <<now, window, forecast, app, rng, end_date, current_time,
                   loc_i, data, cache, df_raw, gens, pickup_list, route, rd>>

(***************************************************************************)
(* Pickup route.                                                           *)
(***************************************************************************)
\* app.py 297, app2.py 272: the fill level above which a station is urgent
urgency_threshold == 75

IsCriticalInclusive(level) == level >= urgency_threshold

\* app.py 297, app2.py 272
IsCritical(level) == level > urgency_threshold

critical_tps(df) == SelectSeq(df, LAMBDA r : IsCritical(r.level_kepenuhan))

\* app.py 297: sort_values(by='level_kepenuhan', ascending=False)
ByLevel(a, b) == a.level_kepenuhan >= b.level_kepenuhan

\* app2.py 275-278: sort_values(by=['level_kepenuhan', 'berat_kg'],
\* ascending=[False, False])
ByLevelThenWeight(a, b) ==
    \/ a.level_kepenuhan > b.level_kepenuhan
    \/ /\ a.level_kepenuhan = b.level_kepenuhan
       /\ a.berat_kg >= b.berat_kg

\* every outcome of sorting df by a key: before holds the pairs <<i, j>> of
\* rows where row i may come right before row j; rows the key does not
\* separate come in any order
Sorted(df, before) ==
    { [i \in 1 .. Len(df) |-> df[p[i]]] : p \in
        { q \in Perms(1 .. Len(df)) :
            \A i \in 1 .. Len(df) - 1 : <<q[i], q[i + 1]>> \in before } }

\* app.py 297: pickup_list
SortedByLevel(df) ==
    Sorted(df, { <<i, j>> \in (1 .. Len(df)) \X (1 .. Len(df)) :
                    ByLevel(df[i], df[j]) })

\* app2.py 275-279: route_plan
SortedByLevelThenWeight(df) ==
    Sorted(df, { <<i, j>> \in (1 .. Len(df)) \X (1 .. Len(df)) :
                    ByLevelThenWeight(df[i], df[j]) })

RouteAlwaysToTPA(pl) ==
    [i \in 1 .. Len(pl) |-> pl[i].id_tps] \o <<TPA_LOCATION>>

RouteWithoutTPA(pl) ==
    IF pl = <<>> THEN <<>>
    ELSE [i \in 1 .. Len(pl) |-> pl[i].id_tps]

\* app.py 299-322, app2.py 495-503: the stops of the route; nothing is
\* built when no station is urgent
route_coords(pl) ==
    IF pl = <<>> THEN <<>>
    ELSE [i \in 1 .. Len(pl) |-> pl[i].id_tps] \o <<TPA_LOCATION>>

\* app.py 292-322 (the page "Rute"); app2.py 464-506 with 266-279
PlanRoute ==
    /\ IF app = "app" THEN pc = "classified" ELSE pc = "snapshot"
    /\ \E pl \in IF app = "app"
                THEN SortedByLevel(critical_tps(df_latest))
                ELSE SortedByLevelThenWeight(critical_tps(df_latest)) :
          /\ pickup_list' = pl
          /\ route' = route_coords(pl)
    /\ pc' = "routed"
    /\ UNCHANGED <<now, window, forecast, err, app, rng, end_date, current_time, loc_i, data, cache,
                   df_raw, gens, df_latest, rd>>

(***************************************************************************)
(* Trend forecast over the daily totals.                                   *)
(***************************************************************************)
RECURSIVE SumWeight(_, _)
\* sum of berat_kg over the rows of df whose index is in I
SumWeight(df, I) ==
    IF I = {} THEN 0
    ELSE LET i == CHOOSE x \in I : TRUE
         IN  df[i].berat_kg + SumWeight(df, I \ {i})

\* timestamp.dt.date: the calendar day of an hourly timestamp
DateOf(t) == t \div 24

\* app.py 397, app2.py 321: groupby(date)['berat_kg'].sum(), one total per
\* calendar day in date order
daily_totals(df) ==
    LET dates == { DateOf(df[i].timestamp) : i \in 1 .. Len(df) }
        days == CHOOSE q \in Perms(dates) :
                    \A i \in 1 .. Len(q) - 1 : q[i] < q[i + 1]
    IN  [k \in 1 .. Len(days) |->
            SumWeight(df, { i \in 1 .. Len(df) :
                              DateOf(df[i].timestamp) = days[k] })]

RECURSIVE SeqSum(_)
\* sum of the elements of a sequence of numbers
SeqSum(q) == IF q = <<>> THEN 0 ELSE q[1] + SeqSum(Tail(q))

\* app.py 403, app2.py 327-328: the least-squares line through the points
\* (0, y[1]), (1, y[2]), ...; slope and intercept are slope / den and
\* intercept / den.  One point: LinearRegression fits the constant line.
fit(y) ==
    LET n == Len(y)
        Sx == SeqSum([i \in 1 .. n |-> i - 1])
        Sxx == SeqSum([i \in 1 .. n |-> (i - 1) * (i - 1)])
        Sy == SeqSum(y)
        Sxy == SeqSum([i \in 1 .. n |-> (i - 1) * y[i]])
    IN  IF n = 1
        THEN [den |-> 1, slope |-> 0, intercept |-> y[1]]
        ELSE [den |-> n * Sxx - Sx * Sx,
              slope |-> n * Sxy - Sx * Sy,
              intercept |-> Sy * Sxx - Sx * Sxy]

PredictAtLastDay(line, y) == line.slope * (Len(y) - 1) + line.intercept

\* app.py 407-408, app2.py 331-332: the line at next_day_index = len(daily),
\* as a numerator over line.den
predict(line, y) == line.slope * Len(y) + line.intercept

\* the forecast shown on the page: the daily totals, the line, the predicted
\* total of the next day and its difference to the last day's total, the
\* last four as numerators over den
DailyForecast(y) ==
    LET line == fit(y)
    IN  [daily      |-> y,
         status     |-> "ok",
         den        |-> line.den,
         slope      |-> line.slope,
         intercept  |-> line.intercept,
         prediction |-> predict(line, y),
         delta      |-> predict(line, y) - y[Len(y)] * line.den]

\* np.polyfit on one point divides by a zero column norm: every number of the
\* result is NaN
NaNForecast(y) ==
    [daily |-> y, status |-> "nan", den |-> 1, slope |-> 0, intercept |-> 0,
     prediction |-> 0, delta |-> 0]

\* app2.py 627: df['hour'] = df['timestamp'].dt.hour, set on the frame the
\* page was given
WithHour(df) ==
    [i \in 1 .. Len(df) |->
        [timestamp       |-> df[i].timestamp,
         id_tps          |-> df[i].id_tps,
         level_kepenuhan |-> df[i].level_kepenuhan,
         berat_kg        |-> df[i].berat_kg,
         status_tutup    |-> df[i].status_tutup,
         status_bau      |-> df[i].status_bau,
         hour            |-> df[i].timestamp % 24]]

\* app.py 393-412 (tab "Prediksi AI" of the analysis page); app2.py 581-590,
\* 315-334, 623-628 (tabs 2 and 3 of the analytics page, after the
\* clustering tab)
Forecast ==
    /\ pc = "classified"
    /\ LET y == daily_totals(df_raw)
       IN  IF app = "app"
           THEN IF Len(y) >= 2
                THEN /\ forecast' = <<DailyForecast(y)>>
                     /\ pc' = "forecast"
                     /\ UNCHANGED err
                ELSE \* the scaled design matrix of polyfit holds NaN: lstsq
                     \* raises LinAlgError, or returns NaN coefficients
                     \/ /\ pc' = "error"
                        /\ err' = "LinAlgError"
                        /\ UNCHANGED forecast
                     \/ /\ forecast' = <<NaNForecast(y)>>
                        /\ pc' = "forecast"
                        /\ UNCHANGED err
           ELSE /\ forecast' = <<DailyForecast(y)>>
                /\ pc' = "forecast"
                /\ UNCHANGED err
    /\ df_raw' = IF app = "app" THEN df_raw ELSE WithHour(df_raw)
    /\ UNCHANGED <<now, window, app, rng, end_date, current_time, loc_i,
                   data, cache, gens, df_latest, pickup_list, route, rd>>

(***************************************************************************)
(* The history is generated a second time.                                 *)
(***************************************************************************)
\* app.py 62, app2.py 250: the entry of st.cache_data is dropped (cache
\* cleared, or a new server process) and the script runs again with the
\* same parameters
Regenerate ==
    /\ pc = "snapshot"
    /\ Len(gens) = 1
    /\ cache' = <<>>
    /\ df_latest' = <<>>
    /\ pc' = "start"
    /\ UNCHANGED <<now, window, forecast, err, app, rng, end_date, current_time, loc_i, data, df_raw,
                   gens, pickup_list, route, rd>>

(***************************************************************************)
(* The script is run again while the cache entry is kept.                  *)
(***************************************************************************)
\* app.py 136, app2.py 668-670: Streamlit runs the script from the top on
\* every interaction, in the same hour or an hour later; the entry of
\* st.cache_data stays
Rerun ==
    /\ pc = "snapshot"
    /\ \E dt \in {0, 1} :
          /\ now + dt <= gens[1][1].timestamp + window + MaxElapsed
          /\ now' = now + dt
    /\ df_latest' = <<>>
    /\ pc' = "start"
    /\ UNCHANGED <<window, forecast, err, app, rng, end_date, current_time,
                   loc_i, data, cache, df_raw, gens, pickup_list, route, rd>>

(***************************************************************************)
(* One row on its own, over the whole range of every draw.                 *)
(***************************************************************************)
\* the timestamps of the single-row harness: every hour of a Wednesday and
\* of a Saturday
RowTimes == (2 * 24 .. 2 * 24 + 23) \cup (5 * 24 .. 5 * 24 + 23)

\* the whole registry of the program
FullRegistry(a) == IF a = "app" THEN LOCATIONS ELSE tps_locations

\* app.py 89-128, app2.py 202-242: the loop body for station loc_i at
\* current_time, which is or is not the last timestamp of the window
GenOne ==
    /\ pc = "row"
    /\ \E r \in Rows(app, FullRegistry(app)[loc_i], current_time,
                    current_time = end_date) :
          rd' = <<[row |-> r, is_last |-> (current_time = end_date)]>>
    /\ pc' = "rowdone"
    /\ UNCHANGED <<now, window, forecast, err, app, rng, end_date, current_time, loc_i, data, cache,
                   df_raw, gens, df_latest, pickup_list, route>>

(***************************************************************************)
(* Specifications.                                                         *)
(***************************************************************************)
Blank ==
    /\ end_date = 0
    /\ current_time = 0
    /\ forecast = <<>>
    /\ err = ""
    /\ loc_i = 1
    /\ data = <<>>
    /\ cache = <<>>
    /\ df_raw = <<>>
    /\ gens = <<>>
    /\ df_latest = <<>>
    /\ pickup_list = <<>>
    /\ route = <<>>
    /\ rd = <<>>

\* the script starts: nothing generated, nothing cached
Init ==
    /\ app \in {"app", "app2"}
    /\ rng = "ends"
    /\ now \in Nows
    /\ window = WindowHours
    /\ pc = "start"
    /\ Blank

Next == Call \/ GenRow \/ Return \/ ExtractLatest

Spec == Init /\ [][Next]_vars

\* two generations with the same parameters, on a Saturday at 18:00
InitTwice ==
    /\ app \in {"app", "app2"}
    /\ rng = "ends"
    /\ now = 168 + 5 * 24 + 18
    /\ window = WindowHours
    /\ pc = "start"
    /\ Blank

NextTwice == Call \/ GenRow \/ Return \/ ExtractLatest \/ Regenerate

SpecTwice == InitTwice /\ [][NextTwice]_vars

\* the generator is about to run the loop body for some station at some
\* timestamp, the last of the window or an earlier one
InitRow ==
    /\ app \in {"app", "app2"}
    /\ rng = "full"
    /\ current_time \in RowTimes
    /\ end_date \in {current_time, current_time + 1}
    /\ now = end_date
    /\ window = 7 * 24
    /\ loc_i \in DOMAIN FullRegistry(app)
    /\ pc = "row"
    /\ forecast = <<>>
    /\ err = ""
    /\ data = <<>>
    /\ cache = <<>>
    /\ df_raw = <<>>
    /\ gens = <<>>
    /\ df_latest = <<>>
    /\ pickup_list = <<>>
    /\ route = <<>>
    /\ rd = <<>>

NextRow == GenOne

SpecRow == InitRow /\ [][NextRow]_vars

(***************************************************************************)
(* The pipeline on the snapshots of arbitrary histories.                   *)
(***************************************************************************)
\* fill levels around the urgency threshold, and one far below it
RouteLevels == {40, 75, 76, 90}

\* fill levels of the snapshots the clustering is run on
ClusterLevels == {40, 76, 90}

\* the snapshot row of the i-th station with the given level and jitter
PlanRow(a, i, t, level, jitter) ==
    SnapRow(IF a = "app"
            THEN Row(LOCATIONS[PickOrder[i]], t, level, jitter, "Tutup")
            ELSE Row_app2(tps_locations[PickOrder[i]], t, level, jitter, "Tutup"))

\* the jitter values a snapshot row is built with
PlanJitters(a) == IF a = "app" THEN {900, 1199} ELSE {-500, 500}

\* snapshots of up to RouteRows stations around the urgency threshold, of
\* one station at every level, and of ClusterRows stations
PlanSnapshots(a, t) ==
    LET J == PlanJitters(a)
        j0 == CHOOSE j \in J : \A k \in J : j <= k
    IN  UNION { { [i \in 1 .. n |-> PlanRow(a, i, t, f[i][1], f[i][2])] :
                    f \in [1 .. n -> RouteLevels \X J] } : n \in 1 .. RouteRows }
        \cup { <<PlanRow(a, 1, t, level, j0)>> : level \in 0 .. 100 }
        \cup { [i \in 1 .. ClusterRows |-> PlanRow(a, i, t, f[i], j0)] :
                    f \in [1 .. ClusterRows -> ClusterLevels] }

\* the script has taken the snapshot of some history
InitPlan ==
    /\ app \in {"app", "app2"}
    /\ rng = "ends"
    /\ end_date = 168 + 2 * 24 + 6
    /\ now = end_date
    /\ window = 7 * 24
    /\ current_time = end_date + 1
    /\ loc_i = 1
    /\ pc = "snapshot"
    /\ forecast = <<>>
    /\ err = ""
    /\ df_latest \in PlanSnapshots(app, end_date)
    /\ data = <<>>
    /\ cache = <<>>
    /\ df_raw = <<>>
    /\ gens = <<>>
    /\ pickup_list = <<>>
    /\ route = <<>>
    /\ rd = <<>>

NextPlan == Colorize \/ Cluster \/ PlanRoute

SpecPlan == InitPlan /\ [][NextPlan]_vars

(***************************************************************************)
(* The generator over windows of whole days, every draw at its low end.    *)
(***************************************************************************)
\* the script starts with timedelta(days=d) for a d of 1 .. WindowDays
InitWindow ==
    /\ app \in {"app", "app2"}
    /\ rng = "low"
    /\ now \in Nows
    /\ window \in { 24 * d : d \in 1 .. WindowDays }
    /\ pc = "start"
    /\ Blank

SpecWindow == InitWindow /\ [][Next]_vars

(***************************************************************************)
(* Reruns of the script over one cache.                                    *)
(***************************************************************************)
InitCache ==
    /\ app \in {"app", "app2"}
    /\ rng = "low"
    /\ now \in Nows
    /\ window = WindowHours
    /\ pc = "start"
    /\ Blank

NextCache == Call \/ GenRow \/ Return \/ ExtractLatest \/ Rerun

SpecCache == InitCache /\ [][NextCache]_vars

(***************************************************************************)
(* One run of the script from the generation to the route.                 *)
(***************************************************************************)
\* the script starts; the window ends at now and begins LatestWindow hours
\* before it
InitLatest ==
    /\ app \in {"app", "app2"}
    /\ rng = "ends"
    /\ now \in Nows
    /\ window = LatestWindow
    /\ pc = "start"
    /\ Blank

NextLatest ==
    Call \/ GenRow \/ Return \/ ExtractLatest \/ Colorize \/ Cluster
        \/ PlanRoute

SpecLatest == InitLatest /\ [][NextLatest]_vars

(***************************************************************************)
(* The analysis page on histories of a few calendar days.                  *)
(***************************************************************************)
\* the fill levels of the stations of one day, relative to the day's level:
\* three distinct readings among five stations
ForecastOffsets == <<-4, -4, 0, 4, 4>>

\* the fill level a day's readings are centred on: the daily totals are
\* 1000, 1100 and 1200 kg
ForecastLevels(a) == IF a = "app" THEN {80, 88, 96} ELSE {40, 44, 48}

\* the timestamp of the readings of day d: noon
ForecastTime(d) == 168 + 24 * (d - 1) + 12

\* the reading of the k-th station on day d
ForecastRow(a, k, d, level) ==
    IF a = "app"
    THEN Row(LOCATIONS[k], ForecastTime(d), level + ForecastOffsets[k],
             1000, "Tutup")
    ELSE Row_app2(tps_locations[k], ForecastTime(d),
                  level + ForecastOffsets[k], 0, "Tutup")

\* the empty History, and histories of 1 .. ForecastDays days with one
\* reading per station and day
ForecastHistories(a) ==
    LET m == Len(ForecastOffsets)
    IN  {<<>>} \cup
        UNION { { [i \in 1 .. n * m |->
                     ForecastRow(a, ((i - 1) % m) + 1, ((i - 1) \div m) + 1,
                                 f[((i - 1) \div m) + 1])] :
                    f \in [1 .. n -> ForecastLevels(a)] } :
                n \in 1 .. ForecastDays }

\* generate_data has returned a History
InitForecast ==
    /\ app \in {"app", "app2"}
    /\ rng = "low"
    /\ now = ForecastTime(ForecastDays)
    /\ window = 24 * ForecastDays
    /\ end_date = now
    /\ current_time = now + 1
    /\ loc_i = 1
    /\ pc = "loaded"
    /\ df_raw \in ForecastHistories(app)
    /\ data = df_raw
    /\ cache = <<df_raw>>
    /\ gens = <<df_raw>>
    /\ df_latest = <<>>
    /\ pickup_list = <<>>
    /\ route = <<>>
    /\ forecast = <<>>
    /\ err = ""
    /\ rd = <<>>

NextForecast ==
    ExtractLatest \/ Colorize \/ Cluster \/ PlanRoute \/ Forecast

SpecForecast == InitForecast /\ [][NextForecast]_vars

(***************************************************************************)
(* Properties of the generator.                                            *)
(***************************************************************************)
\* C1: every reading the generators produce, for every station, hour and
\* draw, has a whole-number fill level between 0 and 100 and a weight of at
\* least 0 kg.
C1_FillAndWeightInRange ==
    \A i \in DOMAIN rd :
        /\ rd[i].row.level_kepenuhan \in 0 .. 100
        /\ rd[i].row.berat_kg >= 0

\* a reading of app2.py whose level was clamped to 0 and whose weight was
\* floored at 0 kg
C1_Witness ==
    /\ app = "app2"
    /\ rd # <<>>
    /\ rd[1].row.level_kepenuhan = 0
    /\ rd[1].row.berat_kg = 0

\* C2 as stated: every reading on the collection hour (5) has a fill level
\* within 0..10, the last reading of the window included.
C2_ResetAlwaysWins ==
    \A i \in DOMAIN rd :
        rd[i].row.timestamp % 24 = 5 => rd[i].row.level_kepenuhan \in 0 .. 10

\* C2 as amended: every reading on the collection hour (5) has a fill level
\* within 0..10, except app.py's reading at the last timestamp of the
\* window, whose level is the forced one of its multiplier band; in app2.py
\* the reset wins at the last timestamp too.
C2_ResetWinsExceptLatestOfApp ==
    \A i \in DOMAIN rd :
        (/\ rd[i].row.timestamp % 24 = 5
         /\ ~(app = "app" /\ rd[i].is_last))
            => rd[i].row.level_kepenuhan \in 0 .. 10

\* a reading of app.py on the collection hour, before the end of the
\* window, with the highest level the reset can draw
C2_Witness ==
    /\ app = "app"
    /\ rd # <<>>
    /\ rd[1].row.timestamp % 24 = 5
    /\ ~rd[1].is_last
    /\ rd[1].row.level_kepenuhan = 9

\* C3: two generations of the History with the same window, stations and
\* now yield the same readings.
C3_SameHistoryTwice ==
    Len(gens) = 2 => gens[1] = gens[2]

\* C4: the snapshot of a generated History has exactly one row for each
\* station of the registry, no other row, and one timestamp for all rows.
C4_SnapshotOneRowPerStation ==
    pc = "snapshot" =>
        /\ Len(df_latest) = NumStations
        /\ \A s \in 1 .. NumStations :
              Cardinality({ i \in 1 .. Len(df_latest) :
                              df_latest[i].id_tps = Registry(app)[s].id }) = 1
        /\ \A i, j \in 1 .. Len(df_latest) :
              df_latest[i].timestamp = df_latest[j].timestamp

\* the snapshot was taken from a history that also holds earlier readings
C4_Witness ==
    /\ pc = "snapshot"
    /\ df_latest # <<>>
    /\ Len(df_raw) > Len(df_latest)
    /\ df_latest[1].timestamp = end_date

(***************************************************************************)
(* Properties of the route planner.                                        *)
(***************************************************************************)
\* C5: the station stops of a route come in non-increasing order of fill
\* level, and stops of equal fill level in non-increasing order of weight.
C5_RouteSortedByLevelThenWeight ==
    pc = "routed" =>
        \A i \in 1 .. Len(pickup_list) - 1 :
            \/ pickup_list[i].level_kepenuhan > pickup_list[i + 1].level_kepenuhan
            \/ /\ pickup_list[i].level_kepenuhan = pickup_list[i + 1].level_kepenuhan
               /\ pickup_list[i].berat_kg >= pickup_list[i + 1].berat_kg

\* C6: the station stops of a planned route are exactly the stations of the
\* snapshot whose fill level is strictly above 75, each of them once.
C6_StopsAreTheStationsAbove75 ==
    pc = "routed" =>
        LET urgent == { i \in 1 .. Len(df_latest) :
                          df_latest[i].level_kepenuhan > 75 }
            stops  == IF route = <<>> THEN <<>>
                      ELSE SubSeq(route, 1, Len(route) - 1)
        IN  /\ Len(stops) = Cardinality(urgent)
            /\ { stops[k] : k \in 1 .. Len(stops) }
                 = { df_latest[i].id_tps : i \in urgent }

\* the route planned for the fill levels 90, 76, 40 has the first two
\* stations as its stops, then the disposal site
C6_Witness ==
    /\ pc = "routed"
    /\ Len(df_latest) = 3
    /\ df_latest[1].level_kepenuhan = 90
    /\ df_latest[2].level_kepenuhan = 76
    /\ df_latest[3].level_kepenuhan = 40
    /\ route = <<df_latest[1].id_tps, df_latest[2].id_tps, TPA_LOCATION>>

\* C7: in a non-empty route no stop appears twice and the disposal site is
\* the last stop and no other.
C7_NoStopTwiceAndTPALast ==
    route # <<>> =>
        /\ route[Len(route)] = TPA_LOCATION
        /\ \A i \in 1 .. Len(route) - 1 : route[i] # TPA_LOCATION
        /\ \A i, j \in 1 .. Len(route) : i # j => route[i] # route[j]

\* a route of three urgent stations and the disposal site
C7_Witness ==
    /\ pc = "routed"
    /\ Len(route) = 4
    /\ Len(pickup_list) = 3

\* C8: when no station of the snapshot is above 75, the planner ends
\* normally with an empty route, the disposal site not appended.
C8_NoUrgentStationNoRoute ==
    (/\ pc = "routed"
     /\ \A i \in 1 .. Len(df_latest) : df_latest[i].level_kepenuhan <= 75)
        => /\ pickup_list = <<>>
           /\ route = <<>>

\* the planner ran on a snapshot of three stations, one exactly at 75 and
\* none above, and built no route
C8_Witness ==
    /\ pc = "routed"
    /\ Len(df_latest) = 3
    /\ \E i \in 1 .. 3 : df_latest[i].level_kepenuhan = 75
    /\ \A i \in 1 .. 3 : df_latest[i].level_kepenuhan <= 75
    /\ route = <<>>

C10_ClusteringFromThreeRows ==
    pc \in {"classified", "error"} =>
        IF Len(df_latest) >= 3
        THEN pc = "classified" =>
                \A i \in 1 .. Len(df_latest) :
                    df_latest[i].label \in {"High", "Medium", "Low"}
        ELSE /\ pc = "classified"
             /\ \A i \in 1 .. Len(df_latest) : df_latest[i].label = "Unknown"

\* C11: once the snapshot is clustered, the labels follow the rank of the
\* clusters' mean fill level: a cluster of the highest mean is labelled High,
\* a cluster of the lowest mean Low, the one between Medium, a higher label
\* never goes with a lower mean, and so the mean fill level of the High rows
\* is at least that of the Medium rows, which is at least that of the Low
\* rows.
C11_LabelsFollowMeanRank ==
    (pc = "classified" /\ df_latest # <<>> /\ df_latest[1].cluster >= 0) =>
        LET n == Len(df_latest)
            c == [i \in 1 .. n |-> df_latest[i].cluster]
            rk(l) == CASE l = "High" -> 3 [] l = "Medium" -> 2
                       [] l = "Low" -> 1 [] OTHER -> 0
            rows(l) == { i \in 1 .. n : df_latest[i].label = l }
            meanLeq(A, B) ==
                (A # {} /\ B # {}) =>
                    SumLevel(df_latest, A) * Cardinality(B)
                        <= SumLevel(df_latest, B) * Cardinality(A)
        IN  /\ \E i \in 1 .. n :
                 /\ df_latest[i].label = "High"
                 /\ \A j \in 1 .. n : MeanLeq(df_latest, c, c[j], c[i])
            /\ \E i \in 1 .. n :
                 /\ df_latest[i].label = "Low"
                 /\ \A j \in 1 .. n : MeanLeq(df_latest, c, c[i], c[j])
            /\ \E i \in 1 .. n : df_latest[i].label = "Medium"
            /\ \A i, j \in 1 .. n :
                 /\ c[i] = c[j] => df_latest[i].label = df_latest[j].label
                 /\ rk(df_latest[i].label) > rk(df_latest[j].label) =>
                        MeanLeq(df_latest, c, c[j], c[i])
            /\ meanLeq(rows("Medium"), rows("High"))
            /\ meanLeq(rows("Low"), rows("Medium"))
            /\ meanLeq(rows("Low"), rows("High"))

\* C12: renaming the raw cluster ids leaves every station's label unchanged:
\* whichever permutation of the ids 0..2 is applied to the assignment the
\* snapshot was clustered with, the label mapping gives every row the label
\* it has, also when two clusters have the same mean fill level.
C12_LabelsIgnoreClusterIds ==
    (pc = "classified" /\ df_latest # <<>> /\ df_latest[1].cluster >= 0) =>
        \A p \in Perms(ClusterIds) :
            LET renamed == [i \in 1 .. Len(df_latest) |->
                               p[df_latest[i].cluster + 1]]
            IN  \A lab \in cluster_label(app, df_latest, renamed) :
                    \A i \in 1 .. Len(df_latest) :
                        lab[i] = df_latest[i].label

\* C13: for a snapshot of at least 3 stations the clustering ends without an
\* error, with High, Medium or Low on every row and with each of the three
\* labels on at least one row, whatever assignment the clustering step
\* returned.
C13_ThreeGroupsFromThreeRows ==
    (pc \in {"classified", "error"} /\ Len(df_latest) >= 3) =>
        /\ pc = "classified"
        /\ \A i \in 1 .. Len(df_latest) :
              df_latest[i].label \in {"High", "Medium", "Low"}
        /\ \A l \in {"High", "Medium", "Low"} :
              \E i \in 1 .. Len(df_latest) : df_latest[i].label = l

\* C14 as stated: when the daily totals lie exactly on a line, the forecaster
\* returns the slope and the intercept of that line, predicts for the next
\* day the value of the line at last day index + 1, and reports as delta the
\* prediction minus the total of the last day; for the totals 1000, 1100,
\* 1200 kg the slope is 100, the intercept 900, the prediction 1300 and the
\* delta +100 kg.  Weights are in hundredths of a kg.
C14_LineOf1000_1100_1200HasIntercept900 ==
    (pc = "forecast" /\ forecast # <<>> /\ forecast[1].status = "ok") =>
        LET f == forecast[1]
            y == f.daily
            n == Len(y)
        IN  /\ (n >= 2 /\ \A i \in 2 .. n : y[i] - y[i - 1] = y[2] - y[1]) =>
                /\ f.den > 0
                /\ f.slope = (y[2] - y[1]) * f.den
                /\ f.prediction = f.slope * ((n - 1) + 1) + f.intercept
                /\ f.delta = f.prediction - y[n] * f.den
            /\ y = <<100000, 110000, 120000>> =>
                /\ f.slope = 10000 * f.den
                /\ f.intercept = 90000 * f.den
                /\ f.prediction = 130000 * f.den
                /\ f.delta = 10000 * f.den

\* C14, amended: the day index starts at 0 on the first day, so the intercept
\* of the fitted line is the total of the first day: when the daily totals
\* lie exactly on a line the slope is the common difference, the intercept
\* the first total, the prediction the line at last day index + 1 and the
\* delta the prediction minus the last total; for 1000, 1100, 1200 kg that
\* is slope 100, intercept 1000, prediction 1300, delta +100 kg.
C14_ForecastOfExactLine ==
    (pc = "forecast" /\ forecast # <<>> /\ forecast[1].status = "ok") =>
        LET f == forecast[1]
            y == f.daily
            n == Len(y)
        IN  /\ (n >= 2 /\ \A i \in 2 .. n : y[i] - y[i - 1] = y[2] - y[1]) =>
                /\ f.den > 0
                /\ f.slope = (y[2] - y[1]) * f.den
                /\ f.intercept = y[1] * f.den
                /\ f.prediction = f.slope * ((n - 1) + 1) + f.intercept
                /\ f.prediction = (y[n] + (y[2] - y[1])) * f.den
                /\ f.delta = f.prediction - y[n] * f.den
            /\ y = <<100000, 110000, 120000>> =>
                /\ f.slope = 10000 * f.den
                /\ f.intercept = 100000 * f.den
                /\ f.prediction = 130000 * f.den
                /\ f.delta = 10000 * f.den

\* the totals 1000, 1100, 1200 kg were fitted and the prediction is 1300 kg
C14_Witness ==
    /\ pc = "forecast"
    /\ forecast # <<>>
    /\ forecast[1].status = "ok"
    /\ forecast[1].daily = <<100000, 110000, 120000>>
    /\ forecast[1].prediction = 130000 * forecast[1].den

\* C15: when the History covers fewer than 2 calendar days the forecaster
\* reports InsufficientData, the script goes on, and there is no slope,
\* intercept or prediction.
C15_InsufficientDataBelowTwoDays ==
    ((pc = "forecast" \/ err = "LinAlgError")
        /\ Cardinality({ DateOf(df_raw[i].timestamp) :
                           i \in 1 .. Len(df_raw) }) < 2) =>
        /\ pc = "forecast"
        /\ forecast # <<>>
        /\ forecast[1].status = "InsufficientData"

\* C16: the snapshot extraction on an empty History fails with the
\* EmptyHistory error and leaves no snapshot.
C16_EmptyHistoryError ==
    (df_raw = <<>> /\ pc # "loaded") =>
        /\ pc = "error"
        /\ err = "EmptyHistory"
        /\ df_latest = <<>>

\* C17: the History generated for a window of d days and n stations holds
\* exactly one reading for every station and every hourly slot from
\* now - d days to now, that is (24 * d + 1) * n readings: the slots are one
\* hour apart, the first is now - d days, the last is now, and no two
\* readings have the same station and timestamp.
C17_OneReadingPerStationAndSlot ==
    pc \in {"loaded", "snapshot"} =>
        LET d == window \div 24
            n == NumStations
            slots == (now - 24 * d) .. now
        IN  /\ Len(df_raw) = (24 * d + 1) * n
            /\ { df_raw[i].timestamp : i \in 1 .. Len(df_raw) } = slots
            /\ \A s \in 1 .. n : \A t \in slots :
                  Cardinality({ i \in 1 .. Len(df_raw) :
                                  /\ df_raw[i].id_tps = Registry(app)[s].id
                                  /\ df_raw[i].timestamp = t }) = 1
            /\ \A i, j \in 1 .. Len(df_raw) :
                  (/\ df_raw[i].id_tps = df_raw[j].id_tps
                   /\ df_raw[i].timestamp = df_raw[j].timestamp) => i = j

\* a History of 25 hourly slots per station was generated for a one-day
\* window
C17_Witness ==
    /\ pc = "loaded"
    /\ window = 24
    /\ Len(df_raw) = 25 * NumStations
    /\ df_raw[1].timestamp = now - 24
    /\ df_raw[Len(df_raw)].timestamp = now

\* C18: a read of the History regenerates it exactly when there is no cached
\* value or the memo key has changed, the generation time bucket (the hour
\* of now) being part of the key: with an unchanged key the read returns the
\* cached History and generates nothing, and after the hour has changed the
\* read returns a freshly generated History.
C18_RegeneratedExactlyWhenKeyChanged ==
    [][pc = "start" =>
          /\ (pc' = "loop") <=> (cache = <<>> \/ end_date # now)
          /\ (cache # <<>> /\ end_date = now) =>
                (df_raw' = cache[1] /\ gens' = gens)]_vars

\* C19: the classifier, the route planner and the forecaster leave the
\* History and the Snapshot they are given as they are, rows and columns:
\* no step taken once the snapshot is extracted changes df_raw or df_latest.
C19_HistoryAndSnapshotNotMutated ==
    [][(pc = "snapshot" \/ pc = "colored" \/ pc = "classified") =>
          (df_raw' = df_raw /\ df_latest' = df_latest)]_vars

C21_StrongOdorIffOpenAbove70 ==
    \A i \in DOMAIN rd :
        LET r == rd[i].row
        IN  /\ r.status_bau \in {"Menyengat", "Normal"}
            /\ r.status_bau = "Menyengat" <=>
                  (r.status_tutup = "Buka" /\ r.level_kepenuhan > 70)
            /\ r.status_tutup = "Tutup" => r.status_bau = "Normal"
            /\ r.level_kepenuhan <= 70 => r.status_bau = "Normal"

\* a reading with fill level exactly 70 and an Open lid was generated, and
\* its odor is Normal
C21_Witness ==
    /\ pc = "rowdone"
    /\ rd # <<>>
    /\ rd[1].row.level_kepenuhan = 70
    /\ rd[1].row.status_tutup = "Buka"
    /\ rd[1].row.status_bau = "Normal"

\* C22: in app.py the hour_progress term of a reading grows with the hours
\* elapsed since the last reset at hour 5: of two hours of one collection
\* cycle, neither the reset hour, the one further from the reset has an
\* hour_progress at least as large; a reading of hours 0..4 has at least the
\* hour_progress of hour 23.
C22_HourProgressGrowsSinceReset ==
    (pc = "rowdone" /\ app = "app" /\ current_time % 24 # 5) =>
        LET hour == current_time % 24
            since(h) == (h + 19) % 24
        IN  \A earlier \in (0 .. 23) \ {5} :
                since(earlier) <= since(hour) =>
                    hour_progress(earlier) <= hour_progress(hour)

====
